---- MODULE Spec2Model ----
(***************************************************************************)
(* Model of the Wall Street Journal corpus preparator of abkhazia          *)
(* (abkhazia/corpora/prepare_wsj.py, corpora/utils/abstract_preparator.py).*)
(*                                                                         *)
(* Python strings are modelled as sequences of one-character strings, so   *)
(* that indexing, slicing, upper(), replace(), split() and the regular     *)
(* expressions of the source are computed character by character.          *)
(***************************************************************************)
EXTENDS Naturals, Sequences, FiniteSets, TLC

VARIABLES
    word,         \* the argument a caller hands to correct_word
    ret,          \* <<>> before correct_word was called, <<outcome>> after
    cls,          \* the preparator class the caller instantiates
    overwrite,    \* the overwrite argument handed to AbstractPreparator.__init__
    inputExists,  \* whether input_dir is a directory
    tree,         \* the files below input_dir: [dirs, name, lines]
    cmuDict,      \* the CMU dictionary file: [exists, lines]
    outdir,       \* the output directory: [exists, entries]
    obj,          \* the preparator's fields, set by __init__
    data,         \* the files below output_dir/data
    pc,           \* how far the caller of the preparator has come
    err,          \* the exception that ended the last call, "" if none
    prep,         \* the names of the steps prepare() has completed
    status,       \* <<>> while main() runs, <<exit status>> once it has ended
    stdout,       \* the lines main() has printed
    am_dir,       \* ForceAlign.am_dir: [none, files]
    lm_dir,       \* ForceAlign.lm_dir: [none, files]
    njobs,        \* ForceAlign.njobs
    recipe_dir,   \* the directories below ForceAlign.recipe_dir
    commands,     \* the external steps ForceAlign.run() has started, in order
    fa,           \* how far the caller of the ForceAlign recipe has come
    faErr         \* the exception that ended run(), "" if none

wordVars == <<word, ret>>

prepVars == <<cls, overwrite, inputExists, tree, cmuDict, outdir, obj, data,
              pc, err, prep>>

mainVars == <<status, stdout>>

alignVars == <<am_dir, lm_dir, njobs, recipe_dir, commands, fa, faErr>>

vars == <<wordVars, prepVars, mainVars, alignVars>>

----------------------------------------------------------------------------
(* Python string primitives *)

Min(a, b) == IF a < b THEN a ELSE b

LowerCase == <<"a","b","c","d","e","f","g","h","i","j","k","l","m",
               "n","o","p","q","r","s","t","u","v","w","x","y","z">>

UpperCase == <<"A","B","C","D","E","F","G","H","I","J","K","L","M",
               "N","O","P","Q","R","S","T","U","V","W","X","Y","Z">>

Digits == {"0","1","2","3","4","5","6","7","8","9"}

\* str.upper() on one character
UpperChar(c) ==
    IF \E i \in 1..26 : LowerCase[i] = c
    THEN UpperCase[CHOOSE i \in 1..26 : LowerCase[i] = c]
    ELSE c

\* str.upper()
Upper(s) == [i \in 1..Len(s) |-> UpperChar(s[i])]

\* s[:n] for n >= 0
PyPrefix(s, n) == SubSeq(s, 1, Min(n, Len(s)))

\* s[-n:] for n >= 1
PySuffix(s, n) == SubSeq(s, Len(s) - Min(n, Len(s)) + 1, Len(s))

\* s[n:] for n >= 0
PyDrop(s, n) == SubSeq(s, Min(n, Len(s)) + 1, Len(s))

\* s.replace(pat, rep): every non-overlapping occurrence, left to right
RECURSIVE Replace(_, _, _)
Replace(s, pat, rep) ==
    IF Len(s) < Len(pat) THEN s
    ELSE IF SubSeq(s, 1, Len(pat)) = pat
         THEN rep \o Replace(PyDrop(s, Len(pat)), pat, rep)
         ELSE <<s[1]>> \o Replace(Tail(s), pat, rep)

\* the concatenation of a sequence of strings
RECURSIVE Concat(_)
Concat(ss) == IF ss = <<>> THEN <<>> ELSE Head(ss) \o Concat(Tail(ss))

----------------------------------------------------------------------------
(* Outcomes of a Python call: a returned value or a raised exception *)

Return(v) == [raised |-> "", value |-> v]

Raise(exc) == [raised |-> exc, value |-> <<>>]

----------------------------------------------------------------------------
(* WallStreetJournalPreparator.correct_word *)

PERCENT == <<"P","E","R","C","E","N","T">>
POINT   == <<"P","O","I","N","T">>
DASH    == <<"D","A","S","H">>
NOISE   == <<"<","n","o","i","s","e",">">>

\* lines 152-154: upper(), then the three replace() calls
Normalize(w) ==
    Replace(Replace(Replace(Upper(w), <<"\\">>, <<>>),
                    <<"%">> \o PERCENT, PERCENT),
            <<".">> \o POINT, POINT)

\* lines 155-156, on a non-empty word: strip one pair of angle brackets
Unwrap(w) ==
    IF w[1] = "<" /\ w[Len(w)] = ">" THEN SubSeq(w, 2, Len(w) - 1) ELSE w

\* line 160: word[:1] == '[<' and word[-1] == ']'
\* (word[-1] is evaluated only when the slice comparison succeeds)
OpenEventTest(w) ==
    PyPrefix(w, 1) = <<"[", "<">> /\ w[Len(w)] = "]"

\* line 163: word[:1] == '[/' and word[-1] == ']'
PhenomenonEndTest(w) ==
    PyPrefix(w, 1) = <<"[", "/">> /\ w[Len(w)] = "]"

\* lines 159-175, on the unwrapped word, in Python's evaluation order:
\* word[0] on the empty string raises IndexError
AfterUnwrap(w) ==
    IF w = <<"~">> \/ w = <<".">> \/ OpenEventTest(w) THEN Return(<<>>)
    ELSE IF w = <<>> THEN Raise("IndexError")
    ELSE IF \/ (w[1] = "[" /\ PySuffix(w, 2) = <<">", "]">>)
            \/ (w[1] = "[" /\ PySuffix(w, 2) = <<"/", "]">>)
            \/ PhenomenonEndTest(w)
         THEN Return(<<>>)
    ELSE IF w[1] = "[" /\ w[Len(w)] = "]" THEN Return(NOISE)
    ELSE IF w = <<"-", "-">> \o DASH THEN Return(<<"-">> \o DASH)
    ELSE Return(w)

\* lines 148-175
correct_word(w) ==
    IF w = <<>> THEN Return(<<>>)
    ELSE LET n == Normalize(w)
         IN  IF n = <<>> THEN Raise("IndexError")
             ELSE AfterUnwrap(Unwrap(n))

----------------------------------------------------------------------------
(* More Python string primitives, used on lines and file names *)

\* whether pat occurs in s ('pat in s')
Contains(s, pat) ==
    \E i \in 1..(Len(s) + 1) :
        /\ i + Len(pat) - 1 <= Len(s)
        /\ SubSeq(s, i, i + Len(pat) - 1) = pat

\* s.split(sep) with an explicit, non-empty separator
RECURSIVE Split(_, _)
Split(s, sep) ==
    IF ~Contains(s, sep) THEN <<s>>
    ELSE LET i == CHOOSE k \in 1..Len(s) :
                      /\ k + Len(sep) - 1 <= Len(s)
                      /\ SubSeq(s, k, k + Len(sep) - 1) = sep
                      /\ \A j \in 1..(k - 1) :
                             SubSeq(s, j, j + Len(sep) - 1) # sep
         IN  <<SubSeq(s, 1, i - 1)>> \o Split(PyDrop(s, i + Len(sep) - 1), sep)

\* sep.join(ws)
RECURSIVE Join(_, _)
Join(ws, sep) ==
    IF ws = <<>> THEN <<>>
    ELSE IF Len(ws) = 1 THEN ws[1]
    ELSE ws[1] \o sep \o Join(Tail(ws), sep)

\* s.strip(): the lines of the model hold no whitespace but spaces
RECURSIVE Strip(_)
Strip(s) ==
    IF s = <<>> THEN s
    ELSE IF s[1] = " " THEN Strip(Tail(s))
    ELSE IF s[Len(s)] = " " THEN Strip(SubSeq(s, 1, Len(s) - 1))
    ELSE s

Max(S) == CHOOSE x \in S : \A y \in S : y <= x

\* re.match(r'(.*) \((.*)\)', s): both groups are greedy, so the first group
\* ends at the last ' (' that a ')' follows and the second at the last ')'
ReMatch(s) ==
    LET opens == { i \in 1..Len(s) :
                     /\ i + 1 <= Len(s)
                     /\ s[i] = " " /\ s[i + 1] = "("
                     /\ \E j \in (i + 2)..Len(s) : s[j] = ")" }
    IN  IF opens = {} THEN [matched |-> FALSE, g1 |-> <<>>, g2 |-> <<>>]
        ELSE LET i == Max(opens)
                 j == Max({ k \in (i + 2)..Len(s) : s[k] = ")" })
             IN  [matched |-> TRUE,
                  g1 |-> SubSeq(s, 1, i - 1),
                  g2 |-> SubSeq(s, i + 2, j - 1)]

\* a directory listing: the entries in the order the file system gives them
RECURSIVE Listing(_)
Listing(S) ==
    IF S = {} THEN <<>>
    ELSE LET x == CHOOSE y \in S : TRUE IN <<x>> \o Listing(S \ {x})

\* whether x is an element of the Python list l
InList(x, l) == \E i \in 1..Len(l) : l[i] = x

----------------------------------------------------------------------------
(* Files *)

WV1 == <<".", "w", "v", "1">>
DOT == <<".", "d", "o", "t">>
WAV == <<".", "w", "a", "v">>
BAD == <<"[","b","a","d","_","r","e","c","o","r","d","i","n","g","]">>

NoFile == [exists |-> FALSE, lines |-> <<>>]

File(ls) == [exists |-> TRUE, lines |-> ls]

\* the directory of a file, as the sequence of directory names below input_dir
IsPrefix(p, q) == Len(p) <= Len(q) /\ SubSeq(q, 1, Len(p)) = p

\* the sub-directories of the directory at path p
SubDirs(p) ==
    { f.dirs[Len(p) + 1] : f \in { g \in tree : IsPrefix(p, g.dirs)
                                              /\ Len(g.dirs) > Len(p) } }

\* os.walk(p): the directories at and below p, top-down
RECURSIVE Walk(_)
Walk(p) ==
    LET subs == Listing(SubDirs(p))
    IN  <<p>> \o Concat([i \in 1..Len(subs) |-> Walk(Append(p, subs[i]))])

\* the files of the directory at path p, in listing order
FilesIn(p) == Listing({ f \in tree : f.dirs = p })

----------------------------------------------------------------------------
(* The preparator classes and their class attributes *)

WSJClasses ==
    { "WallStreetJournalPreparator", "JournalistReadPreparator",
      "JournalistSpontaneousPreparator", "MainReadPreparator" }

Classes == WSJClasses \cup {"AbstractPreparator"}

\* directory_pattern: JournalistReadPreparator sets dir_pattern, an attribute
\* nothing reads, and so inherits directory_pattern = None
directory_pattern(c) ==
    CASE c = "JournalistSpontaneousPreparator" ->
            [none |-> FALSE, dirs |-> {"si_tr_jd"}]
      [] c = "MainReadPreparator" ->
            [none |-> FALSE,
             dirs |-> {"si_tr_s", "si_tr_l", "sd_tr_s", "sd_tr_l"}]
      [] OTHER -> [none |-> TRUE, dirs |-> {}]

file_pattern(c) ==
    CASE c = "JournalistReadPreparator" -> [none |-> FALSE, char |-> "c"]
      [] c = "JournalistSpontaneousPreparator" -> [none |-> FALSE, char |-> "s"]
      [] c = "MainReadPreparator" -> [none |-> FALSE, char |-> "c"]
      [] OTHER -> [none |-> TRUE, char |-> ""]

\* lines 196-199
dir_filter(c, d) ==
    IF directory_pattern(c).none THEN TRUE ELSE d \in directory_pattern(c).dirs

\* lines 201-208: f[3] raises IndexError on a name shorter than 4 characters
FilterRaises(c, f) == ~file_pattern(c).none /\ Len(f) < 4

file_filter(c, ext, f) ==
    IF file_pattern(c).none THEN PySuffix(f, 4) = ext
    ELSE f[4] = file_pattern(c).char /\ PySuffix(f, 4) = ext

\* lines 232-238: every file the filter is applied to, with repetitions: for
\* each directory of os.walk(input_dir), each sub-directory d that passes
\* dir_filter, the files of each directory of os.walk(d)
Scanned(c) ==
    LET outer == Walk(<<>>)
        below(p) ==
            LET ds == SelectSeq(Listing(SubDirs(p)), LAMBDA d : dir_filter(c, d))
            IN  Concat([i \in 1..Len(ds) |->
                    LET inner == Walk(Append(p, ds[i]))
                    IN  Concat([k \in 1..Len(inner) |-> FilesIn(inner[k])])])
    IN  Concat([i \in 1..Len(outer) |-> below(outer[i])])

\* lines 230-238
list_files(c, ext) ==
    LET scanned == Scanned(c)
    IN  IF \E i \in 1..Len(scanned) : FilterRaises(c, scanned[i].name)
        THEN Raise("IndexError")
        ELSE Return(SelectSeq(scanned,
                              LAMBDA f : file_filter(c, ext, f.name)))

----------------------------------------------------------------------------
(* AbstractPreparator.__init__ and WallStreetJournalPreparator.__init__ *)

NoObject ==
    [input_recordings |-> <<>>, input_transcriptions |-> <<>>,
     bad_utts |-> <<>>]

NoData ==
    [wavs |-> {}, segments |-> NoFile, utt2spk |-> NoFile, text |-> NoFile,
     lexicon |-> NoFile, phones |-> NoFile]

AbsentDir == [exists |-> FALSE, entries |-> {}]

\* os.makedirs(path): creates the missing directories of the path, and raises
\* OSError when the last one exists already
makedirs(d, path) ==
    IF d.exists /\ path[Len(path)] \in d.entries THEN Raise("OSError")
    ELSE Return([exists |-> TRUE,
                 entries |-> d.entries \cup { path[i] : i \in 1..Len(path) }])

\* AbstractInit without the test of line 77: an existing output directory
\* is not rejected, and the hierarchy is created inside it
AbstractInit_NoExistsCheck(ow) ==
    IF ~inputExists THEN [raised |-> "IOError", out |-> outdir]
    ELSE IF ow /\ ~outdir.exists
         THEN [raised |-> "OSError", out |-> outdir]
    ELSE LET cleared == IF ow THEN AbsentDir ELSE outdir
             wavs == makedirs(cleared, <<"data", "data/wavs">>)
         IN  IF wavs.raised # "" THEN [raised |-> wavs.raised, out |-> cleared]
             ELSE LET logs == makedirs(wavs.value, <<"logs">>)
                  IN  IF logs.raised # ""
                      THEN [raised |-> logs.raised, out |-> wavs.value]
                      ELSE [raised |-> "", out |-> logs.value]

\* abstract_preparator.py lines 62-98: the outcome and the output directory
\* it leaves behind. shutil.rmtree raises OSError on a missing directory and
\* removes an existing one with all it holds
AbstractInit(ow) ==
    IF ~inputExists THEN [raised |-> "IOError", out |-> outdir]
    ELSE IF ow /\ ~outdir.exists
         THEN [raised |-> "OSError", out |-> outdir]
    ELSE IF ~ow /\ outdir.exists
         THEN [raised |-> "IOError", out |-> outdir]
    ELSE LET cleared == IF ow THEN AbsentDir ELSE outdir
             wavs == makedirs(cleared, <<"data", "data/wavs">>)
         IN  IF wavs.raised # "" THEN [raised |-> wavs.raised, out |-> cleared]
             ELSE LET logs == makedirs(wavs.value, <<"logs">>)
                  IN  IF logs.raised # ""
                      THEN [raised |-> logs.raised, out |-> wavs.value]
                      ELSE [raised |-> "", out |-> logs.value]

\* the scan with a test of the match before .group(2): a line with the marker
\* that does not match is skipped
RECURSIVE ScanLines_SkipUnmatched(_)
ScanLines_SkipUnmatched(ls) ==
    IF ls = <<>> THEN Return(<<>>)
    ELSE LET line == Head(ls)
             rest == ScanLines_SkipUnmatched(Tail(ls))
         IN  IF Contains(line, BAD) /\ ReMatch(line).matched
             THEN Return(<<ReMatch(line).g2>> \o rest.value)
             ELSE rest

\* prepare_wsj.py lines 219-225: the exclusion list, or AttributeError when a
\* line with the marker does not match (re.match returns None)
RECURSIVE ScanLines(_)
ScanLines(ls) ==
    IF ls = <<>> THEN Return(<<>>)
    ELSE LET line == Head(ls)
             rest == ScanLines(Tail(ls))
         IN  IF Contains(line, BAD)
             THEN IF ~ReMatch(line).matched THEN Raise("AttributeError")
                  ELSE IF rest.raised # "" THEN rest
                  ELSE Return(<<ReMatch(line).g2>> \o rest.value)
             ELSE rest

\* readlines() over self.input_transcriptions, in order
AllLines(trs) == Concat([i \in 1..Len(trs) |-> trs[i].lines])

\* prepare_wsj.py lines 177-228: the outcome and the fields it sets
WSJInit ==
    LET base == AbstractInit(FALSE)
        recs == list_files(cls, WV1)
        dots == list_files(cls, DOT)
    IN  IF base.raised # "" THEN [raised |-> base.raised, out |-> base.out,
                                  fields |-> NoObject]
        ELSE IF ~cmuDict.exists
             THEN [raised |-> "IOError", out |-> base.out, fields |-> NoObject]
        ELSE IF recs.raised # ""
             THEN [raised |-> recs.raised, out |-> base.out, fields |-> NoObject]
        ELSE LET bad == ScanLines(AllLines(dots.value))
             IN  IF bad.raised # ""
                 THEN [raised |-> bad.raised, out |-> base.out,
                       fields |-> NoObject]
                 ELSE [raised |-> "", out |-> base.out,
                       fields |-> [input_recordings |-> recs.value,
                                   input_transcriptions |-> dots.value,
                                   bad_utts |-> bad.value]]

\* the constructor of the class the caller instantiates
Constructor ==
    IF cls = "AbstractPreparator"
    THEN LET base == AbstractInit(overwrite)
         IN  [raised |-> base.raised, out |-> base.out, fields |-> NoObject]
    ELSE WSJInit

\* the caller constructs the preparator
Construct ==
    /\ pc = "start"
    /\ LET r == Constructor
       IN  /\ outdir' = r.out
           /\ obj' = r.fields
           /\ err' = r.raised
           /\ pc' = IF r.raised = "" THEN "constructed" ELSE "failed"
    /\ UNCHANGED <<cls, overwrite, inputExists, tree, cmuDict, data, prep>>
    /\ UNCHANGED <<wordVars, mainVars, alignVars>>

----------------------------------------------------------------------------
(* The preparation steps: each maps the fields of the preparator and the   *)
(* files below output_dir/data to an outcome and the files it leaves       *)

Done(d) == [raised |-> "", data |-> d]

Failed(exc, d) == [raised |-> exc, data |-> d]

\* sph2wav(sph, wav) writes the wav file
sph2wav(wavs, wav) == wavs \cup {wav}

\* list_directory(wavs_dir): the entries of the directory
list_directory(wavs) == Listing(wavs)

\* line 245
RecordingId(sph) == Replace(sph.name, WV1, <<>>)

\* line 246 and line 283 without the test: no utterance is excluded
Kept_NoExclusion(o, utt_id) == TRUE

\* line 246 and line 283: utt_id not in self.bad_utts
Kept(o, utt_id) == ~InList(utt_id, o.bad_utts)

\* prepare_wsj.py lines 240-251
RECURSIVE ConvertAll(_, _, _)
ConvertAll(o, sphs, wavs) ==
    IF sphs = <<>> THEN wavs
    ELSE LET utt_id == RecordingId(Head(sphs))
             wav == utt_id \o WAV
         IN  ConvertAll(o, Tail(sphs),
                 IF Kept(o, utt_id) /\ wav \notin wavs
                 THEN sph2wav(wavs, wav) ELSE wavs)

make_wavs(o, d) ==
    Done([d EXCEPT !.wavs = ConvertAll(o, o.input_recordings, d.wavs)])

\* line 256 and line 263
WavId(wav) == Replace(wav, WAV, <<>>)

\* prepare_wsj.py lines 253-258
make_segment(o, d) ==
    LET wavs == list_directory(d.wavs)
    IN  Done([d EXCEPT !.segments =
            File([i \in 1..Len(wavs) |-> WavId(wavs[i]) \o <<" ">> \o wavs[i]])])

\* prepare_wsj.py lines 260-266
make_speaker(o, d) ==
    LET wavs == list_directory(d.wavs)
    IN  Done([d EXCEPT !.utt2spk =
            File([i \in 1..Len(wavs) |->
                    WavId(wavs[i]) \o <<" ">> \o PyPrefix(WavId(wavs[i]), 3)])])

\* line 290: the list comprehension raises what correct_word raises
CorrectAll(ws) ==
    LET rs == [i \in 1..Len(ws) |-> correct_word(ws[i])]
    IN  IF \E i \in 1..Len(rs) : rs[i].raised # ""
        THEN Raise(rs[CHOOSE i \in 1..Len(rs) :
                        /\ rs[i].raised # ""
                        /\ \A j \in 1..(i - 1) : rs[j].raised = ""].raised)
        ELSE Return([i \in 1..Len(rs) |-> rs[i].value])

\* lines 278-294, for one line: the outcome and the lines written for it
TranscribeLine(o, line) ==
    LET m == ReMatch(Strip(line))
    IN  IF ~m.matched THEN Raise("AttributeError")
        ELSE IF ~Kept(o, m.g2) THEN Return(<<>>)
        ELSE LET words == CorrectAll(Split(m.g1, <<" ">>))
             IN  IF words.raised # "" THEN words
                 ELSE Return(<<m.g2 \o <<" ">> \o
                               Join(SelectSeq(words.value,
                                              LAMBDA w : w # <<>>), <<" ">>)>>)

\* lines 275-294: the loop stops at the first line that raises, and the with
\* statement closes the file with the lines written so far
RECURSIVE TranscribeAll(_, _, _)
TranscribeAll(o, ls, written) ==
    IF ls = <<>> THEN [raised |-> "", lines |-> written]
    ELSE LET r == TranscribeLine(o, Head(ls))
         IN  IF r.raised # "" THEN [raised |-> r.raised, lines |-> written]
             ELSE TranscribeAll(o, Tail(ls), written \o r.value)

\* prepare_wsj.py lines 268-296
make_transcription(o, d) ==
    LET r == TranscribeAll(o, AllLines(o.input_transcriptions), <<>>)
    IN  [raised |-> r.raised, data |-> [d EXCEPT !.text = File(r.lines)]]

IsComment(line) == Len(line) >= 3 /\ PyPrefix(line, 3) = <<";", ";", ";">>

\* the pattern with [0-9] for [0-9]+: one digit between the parentheses
IsAlternative_OneDigit(w) ==
    /\ Len(w) >= 3
    /\ w[Len(w) - 2] = "(" /\ w[Len(w) - 1] \in Digits /\ w[Len(w)] = ")"

\* re.match(ur'(.*)\([0-9]+\)$', word)
IsAlternative(w) ==
    \E i \in 1..Len(w) :
        /\ w[i] = "(" /\ w[Len(w)] = ")"
        /\ i + 1 < Len(w)
        /\ \A k \in (i + 1)..(Len(w) - 1) : w[k] \in Digits

\* re.sub(u'[0-9]+', u'', phones)
StripDigits(s) == SelectSeq(s, LAMBDA c : c \notin Digits)

\* lines 302-316, for one line of the dictionary
LexiconLine(raw) ==
    LET line == Strip(raw)
        parts == Split(line, <<" ", " ">>)
    IN  IF IsComment(line) THEN Return(<<>>)
        ELSE IF Len(parts) # 2 THEN Raise("ValueError")
        ELSE IF IsAlternative(parts[1]) THEN Return(<<>>)
        ELSE Return(<<parts[1] \o <<" ">> \o StripDigits(parts[2])>>)

RECURSIVE LexiconAll(_, _)
LexiconAll(ls, written) ==
    IF ls = <<>>
    THEN [raised |-> "",
          lines |-> Append(written, NOISE \o <<" ", "N", "S", "N">>)]
    ELSE LET r == LexiconLine(Head(ls))
         IN  IF r.raised # "" THEN [raised |-> r.raised, lines |-> written]
             ELSE LexiconAll(Tail(ls), written \o r.value)

\* prepare_wsj.py lines 298-324
make_lexicon(dict, d) ==
    LET r == LexiconAll(dict.lines, <<>>)
    IN  IF ~dict.exists
        THEN Failed("IOError", [d EXCEPT !.lexicon = File(<<>>)])
        ELSE [raised |-> r.raised, data |-> [d EXCEPT !.lexicon = File(r.lines)]]

\* abstract_preparator.py lines 127-158: one line per phone of the class
make_phones(c, d) ==
    Done([d EXCEPT !.phones =
            File(IF c \in WSJClasses THEN <<<<"p", "h", "o", "n", "e", "s">>>>
                 ELSE <<>>)])

\* abstract_preparator.py lines 180-187: no class of prepare_wsj.py
\* overrides link_wavs (they define make_wavs)
link_wavs(o, d) == Failed("NotImplementedError", d)

\* a step of prepare(), looked up on the class of the preparator
Step(name, c, o, dict, d) ==
    CASE name = "link_wavs" -> link_wavs(o, d)
      [] name = "make_segment" ->
            IF c \in WSJClasses THEN make_segment(o, d)
            ELSE Failed("NotImplementedError", d)
      [] name = "make_speaker" ->
            IF c \in WSJClasses THEN make_speaker(o, d)
            ELSE Failed("NotImplementedError", d)
      [] name = "make_transcription" ->
            IF c \in WSJClasses THEN make_transcription(o, d)
            ELSE Failed("NotImplementedError", d)
      [] name = "make_lexicon" ->
            IF c \in WSJClasses THEN make_lexicon(dict, d)
            ELSE Failed("NotImplementedError", d)
      [] name = "make_phones" -> make_phones(c, d)

\* abstract_preparator.py lines 110-117
PrepareSteps ==
    <<"link_wavs", "make_segment", "make_speaker", "make_transcription",
      "make_lexicon", "make_phones">>

----------------------------------------------------------------------------
(* The calls of the preparator's user *)

Frame == UNCHANGED <<cls, overwrite, inputExists, tree, cmuDict, outdir, obj>>
            /\ UNCHANGED <<wordVars, mainVars, alignVars>>

\* abstract_preparator.py lines 118-120: prepare(), called on the freshly
\* constructed preparator, runs the next step of its list; the first
\* exception ends it
Prepare ==
    /\ pc \in {"constructed", "preparing"}
    /\ pc = "constructed" => prep = <<>>
    /\ LET name == PrepareSteps[Len(prep) + 1]
           r == Step(name, cls, obj, cmuDict, data)
       IN  /\ data' = r.data
           /\ err' = r.raised
           /\ prep' = IF r.raised = "" THEN Append(prep, name) ELSE prep
           /\ pc' = IF r.raised # "" THEN "prepare raised"
                    ELSE IF Len(prep) + 1 = Len(PrepareSteps) THEN "prepared"
                    ELSE "preparing"
    /\ Frame

\* one method of a WallStreetJournalPreparator, called after the call that
\* left the caller at `from`
Call(from, to, r) ==
    /\ pc = from
    /\ cls \in WSJClasses
    /\ data' = r.data
    /\ err' = r.raised
    /\ pc' = IF r.raised = "" THEN to ELSE to \o " raised"
    /\ UNCHANGED prep
    /\ Frame

MakeWavs == Call("constructed", "make_wavs", make_wavs(obj, data))

MakeSegment == Call("make_wavs", "make_segment", make_segment(obj, data))

MakeSpeaker == Call("make_segment", "make_speaker", make_speaker(obj, data))

MakeTranscription ==
    Call("make_speaker", "make_transcription", make_transcription(obj, data))

MakeLexicon ==
    Call("make_transcription", "make_lexicon", make_lexicon(cmuDict, data))

MakePhones == Call("make_lexicon", "make_phones", make_phones(cls, data))

\* validation.validate(output_dir, verbose): raises when the corpus is not
\* valid
validate(valid) == IF valid THEN "" ELSE "ValidationError"

\* prepare_wsj.py lines 424-432: the end of main(), which constructed a
\* preparator of prepare_wsj.py and called prepare(). validate() runs after a
\* prepare() that returned, unless --no-validation is given; the except
\* clause prints any exception; main() returns and the interpreter exits
\* with status 0
MainEnd ==
    /\ status = <<>>
    /\ cls \in WSJClasses
    /\ pc \in {"failed", "prepare raised", "prepared"}
    /\ \E no_validation \in BOOLEAN, valid \in BOOLEAN :
          LET validated == pc = "prepared" /\ ~no_validation
              raised == IF validated THEN validate(valid) ELSE err
          IN  /\ err' = raised
              /\ pc' = IF ~validated THEN pc
                       ELSE IF raised = "" THEN "validated"
                       ELSE "validate raised"
              /\ stdout' = IF raised = "" THEN stdout
                           ELSE Append(stdout, "fatal error: " \o raised)
              /\ status' = <<0>>
    /\ UNCHANGED <<cls, overwrite, inputExists, tree, cmuDict, outdir, obj,
                   data, prep>>
    /\ UNCHANGED <<wordVars, alignVars>>

Next ==
    \/ Construct
    \/ Prepare
    \/ MainEnd
    \/ MakeWavs
    \/ MakeSegment
    \/ MakeSpeaker
    \/ MakeTranscription
    \/ MakeLexicon
    \/ MakePhones

----------------------------------------------------------------------------
(* The inputs: utterances, transcript lines, corpus trees, dictionaries *)

MaxLines == 2       \* transcript lines below input_dir
MaxRecordings == 2  \* recordings beside the transcripts
MaxFiles == 2       \* files of a corpus tree
MaxDictLines == 2   \* lines of the CMU dictionary

\* utterance IDs: 3 characters of speaker, the speech type, the utterance
U1 == <<"4","k","0","c","0","3","0","1">>
U2 == <<"4","k","0","c","0","3","0","2">>
U3 == <<"4","k","0","s","0","3","0","1">>

THE == <<"T","H","E">>

\* '<text> (<utterance-id>)'
Line(tokens, id) == Join(tokens, <<" ">>) \o <<" ", "(">> \o id \o <<")">>

TranscriptLines ==
    { Line(<<THE, <<"<","D","O","O","R",">">>,
             <<"S","L","A","M","M","E","D">>,
             <<"[","l","o","u","d","_","b","r","e","a","t","h","]">>>>, U1),
      Line(<<BAD>>, U2),
      Line(<<THE, BAD>>, U1),
      Line(<<<<"~">>, <<"[","<","d","o","o","r","_","s","l","a","m","]">>,
             <<>>, <<".">>, <<"-","-","d","a","s","h">>>>, U2),
      Line(<<THE, <<"<", ">">>>>, U2),
      BAD,
      THE }

\* the subsets of S with at most n elements
RECURSIVE SubsetsUpTo(_, _)
SubsetsUpTo(S, n) ==
    IF n = 0 THEN {{}}
    ELSE LET smaller == SubsetsUpTo(S, n - 1)
         IN  smaller \cup { A \cup {x} : A \in smaller, x \in S }

LinesUpTo(n) == UNION { [1..k -> TranscriptLines] : k \in 0..n }

\* a file of the corpus tree
Recording(dirs, id) == [dirs |-> dirs, name |-> id \o WV1, lines |-> <<>>]

Transcript(dirs, id, ls) == [dirs |-> dirs, name |-> id \o DOT, lines |-> ls]

SmallDict ==
    File(<< <<"T","H","E"," "," ","D","H"," ","A","H","0">> >>)

\* main() has not ended and has printed nothing
NotStarted == status = <<>> /\ stdout = <<>>

\* None, the value ForceAlign.__init__ gives lm_dir and am_dir
None == [none |-> TRUE, files |-> {}]

\* the fields of a ForceAlign recipe after __init__, for one job
NoRecipe ==
    /\ am_dir = None
    /\ lm_dir = None
    /\ njobs = 1
    /\ recipe_dir = {}
    /\ commands = <<>>
    /\ fa = "created"
    /\ faErr = ""

\* the state before the constructor is called
Start(c, ow, inp, files, dict, out) ==
    /\ cls = c
    /\ overwrite = ow
    /\ inputExists = inp
    /\ tree = files
    /\ cmuDict = dict
    /\ outdir = out
    /\ obj = NoObject
    /\ data = NoData
    /\ pc = "start"
    /\ err = ""
    /\ prep = <<>>
    /\ word = <<>>
    /\ ret = <<>>
    /\ NotStarted
    /\ NoRecipe

\* transcripts with up to MaxLines lines, the first of them in one file and
\* the others in a file of a sub-directory, and recordings of some utterances
Init ==
    \E c \in {"WallStreetJournalPreparator", "MainReadPreparator"} :
    \E ls \in LinesUpTo(MaxLines) :
    \E cut \in 0..1 :
    \E ids \in SubsetsUpTo({U1, U2, U3}, MaxRecordings) :
        /\ cut <= Len(ls)
        /\ Start(c, FALSE, TRUE,
                 { Recording(<<"si_tr_s">>, id) : id \in ids }
                   \cup { Transcript(<<"si_tr_s">>, U1, SubSeq(ls, 1, cut)) }
                   \cup { Transcript(<<"si_tr_s", "4k0">>, U2,
                                     SubSeq(ls, cut + 1, Len(ls))) },
                 SmallDict, AbsentDir)

Spec == Init /\ [][Next]_vars

\* corpus trees: up to MaxFiles files in directories inside and outside the
\* patterns of the variants, each transcript holding the line of its utterance
TreeDirs ==
    { <<>>, <<"si_tr_j">>, <<"si_tr_jd">>, <<"si_tr_s">>, <<"other">>,
      <<"si_tr_s", "sd_tr_l">>, <<"other", "si_tr_jd">> }

TreeFiles ==
    { Recording(d, id) : d \in TreeDirs, id \in {U1, U3} }
        \cup { Transcript(d, U1, <<Line(<<THE>>, U1)>>) : d \in TreeDirs }
        \cup { [dirs |-> <<"si_tr_jd">>, name |-> <<"a">>, lines |-> <<>>] }

InitSelect ==
    \E c \in WSJClasses :
    \E files \in SubsetsUpTo(TreeFiles, MaxFiles) :
        Start(c, FALSE, TRUE, files, SmallDict, AbsentDir)

SpecSelect == InitSelect /\ [][Next]_vars

\* output directories, present or not, and the arguments of the constructor
OutDirs ==
    { AbsentDir,
      [exists |-> TRUE, entries |-> {}],
      [exists |-> TRUE, entries |-> {"old.txt"}],
      [exists |-> TRUE, entries |-> {"data", "data/wavs", "logs"}],
      [exists |-> TRUE, entries |-> {"data", "data/text.txt"}] }

SmallTrees ==
    { {},
      { Recording(<<"si_tr_s">>, U1),
        Transcript(<<"si_tr_s">>, U1, <<Line(<<THE>>, U1)>>) },
      { Transcript(<<"si_tr_s">>, U1, <<BAD>>) } }

InitOutput ==
    \E c \in Classes :
    \E ow \in BOOLEAN :
    \E inp \in BOOLEAN :
    \E files \in SmallTrees :
    \E dict \in {NoFile, SmallDict} :
    \E out \in OutDirs :
        /\ ow => c = "AbstractPreparator"
        /\ ~inp => files = {}
        /\ Start(c, ow, inp, files, dict, out)

SpecOutput == InitOutput /\ [][Next]_vars

\* CMU dictionaries of up to MaxDictLines lines
DictLines ==
    { <<"O","K"," "," ","O","W"," ","K"," ","E","Y","1">>,
      <<"O","K","(","1",")"," "," ","O","W"," ","K"," ","E","Y","1">>,
      <<"A","(","1","2",")"," "," ","A","H","0">>,
      <<"B","2","B"," "," ","B","1","2"," ","B">>,
      <<"X","(",")"," "," ","A","H","0">>,
      <<"(","2",")","N","D"," "," ","1","2">>,
      <<";",";",";"," ","O","K"," "," ","O","W","1">>,
      <<" ","O","K"," "," ","O","W","1"," ">>,
      <<>>,
      <<"O","K"," ","O","W","1">>,
      <<"O","K"," "," ","O","W"," "," ","K">> }

InitLexicon ==
    \E ls \in UNION { [1..k -> DictLines] : k \in 0..MaxDictLines } :
        Start("WallStreetJournalPreparator", FALSE, TRUE,
              { Recording(<<"si_tr_s">>, U1),
                Transcript(<<"si_tr_s">>, U1, <<Line(<<THE>>, U1)>>) },
              File(ls), AbsentDir)

SpecLexicon == InitLexicon /\ [][Next]_vars

----------------------------------------------------------------------------
(* The tokens correct_word is applied to *)

MaxPieces == 4

Pieces ==
    { <<"\\">>, <<"<">>, <<">">>, <<"[">>, <<"]">>, <<"/">>, <<"~">>, <<".">>,
      <<"x">>, <<"%">>, PERCENT, POINT, <<"-">>, DASH }

\* the tokens named in the documentation of correct_word
Examples ==
    { <<"[","l","o","u","d","_","b","r","e","a","t","h","]">>,
      <<"<","D","E","L","E","T","E","D",">">>,
      <<"[","<","d","o","o","r","_","s","l","a","m","]">>,
      <<"[","d","o","o","r","_","s","l","a","m",">","]">>,
      <<"[","p","h","o","n","e","_","r","i","n","g","/","]">>,
      <<"[","/","p","h","o","n","e","_","r","i","n","g","]">>,
      <<"<","-","-","D","A","S","H",">">> }

\* the sequences of up to n pieces
PieceSeqs(n) == UNION { [1..k -> Pieces] : k \in 0..n }

Tokens(n) == { Concat(ps) : ps \in PieceSeqs(n) } \cup Examples

InitWord ==
    /\ word \in Tokens(MaxPieces)
    /\ ret = <<>>
    /\ cls = "WallStreetJournalPreparator"
    /\ overwrite = FALSE
    /\ inputExists = TRUE
    /\ tree = {}
    /\ cmuDict = SmallDict
    /\ outdir = AbsentDir
    /\ obj = NoObject
    /\ data = NoData
    /\ pc = "correct_word"
    /\ err = ""
    /\ prep = <<>>
    /\ NotStarted
    /\ NoRecipe

\* a caller applies correct_word to the token
CorrectWord ==
    /\ ret = <<>>
    /\ ret' = <<correct_word(word)>>
    /\ UNCHANGED word
    /\ UNCHANGED <<prepVars, mainVars, alignVars>>

NextWord == CorrectWord

SpecWord == InitWord /\ [][NextWord]_vars

----------------------------------------------------------------------------
(* The ForceAlign recipe (abkhazia/kaldi/force_align.py) *)

MaxJobs == 2

\* a model directory: the files it holds
Dir(files) == [none |-> FALSE, files |-> files]

\* the values a caller gives am_dir and lm_dir
Dirs == {None} \cup { Dir(S) : S \in SUBSET {"final.mdl", "phones.txt"} }

\* what os.path.join raises on None: AttributeError ('NoneType' object has no
\* attribute 'endswith') under Python 2, TypeError under Python 3
JoinErrors == {"AttributeError", "TypeError"}

\* os.path.join(d, name)
join(d, name, exc) ==
    IF d.none THEN Raise(exc) ELSE Return([dir |-> d, name |-> name])

\* os.path.isfile(target)
isfile(target) == target.name \in target.dir.files

\* force_align.py lines 43-49: the exception raised, "" if none
_check_template(param, name, target) ==
    IF param.none THEN "RuntimeError: non specified " \o name \o " model"
    ELSE IF ~isfile(target)
         THEN "RuntimeError: non valid " \o name \o " model"
    ELSE ""

\* lines 51-53: the arguments of the call are evaluated before the call
_check_acoustic_model(am, exc) ==
    LET target == join(am, "final.mdl", exc)
    IN  IF target.raised # "" THEN target.raised
        ELSE _check_template(am, "acoustic", target.value)

\* lines 55-57
_check_language_model(lm, exc) ==
    LET target == join(lm, "phones.txt", exc)
    IN  IF target.raised # "" THEN target.raised
        ELSE _check_template(lm, "language", target.value)

\* lines 120-122
check_parameters(am, lm, exc) ==
    IF _check_acoustic_model(am, exc) # ""
    THEN _check_acoustic_model(am, exc)
    ELSE _check_language_model(lm, exc)

\* utils.jobs.run(command) and k2a.export_phone_alignment: the exception
\* raised when the step fails, "" when it succeeds
external(ok) == IF ok THEN "" ELSE "ExternalError"

AlignFrame == UNCHANGED <<wordVars, prepVars, mainVars>>

\* the caller sets the acoustic model directory of the recipe
SetAmDir ==
    /\ fa = "created"
    /\ \E d \in Dirs : am_dir' = d
    /\ UNCHANGED <<lm_dir, njobs, recipe_dir, commands, fa, faErr>>
    /\ AlignFrame

\* the caller sets the language model directory of the recipe
SetLmDir ==
    /\ fa = "created"
    /\ \E d \in Dirs : lm_dir' = d
    /\ UNCHANGED <<am_dir, njobs, recipe_dir, commands, fa, faErr>>
    /\ AlignFrame

\* line 151: run() starts with check_parameters()
CheckParameters ==
    /\ fa = "created"
    /\ \E exc \in JoinErrors :
          LET raised == check_parameters(am_dir, lm_dir, exc)
          IN  /\ faErr' = raised
              /\ fa' = IF raised = "" THEN "checked" ELSE "raised"
    /\ UNCHANGED <<am_dir, lm_dir, njobs, recipe_dir, commands>>
    /\ AlignFrame

\* a step of run(): creates the directory it writes to, starts the external
\* step and raises if that fails
RunStep(from, to, dir, command) ==
    /\ fa = from
    /\ recipe_dir' = recipe_dir \cup dir
    /\ commands' = Append(commands, command)
    /\ \E ok \in BOOLEAN :
          /\ faErr' = external(ok)
          /\ fa' = IF ok THEN to ELSE "raised"
    /\ UNCHANGED <<am_dir, lm_dir, njobs>>
    /\ AlignFrame

\* line 152 and lines 59-78
AlignFmllr == RunStep("checked", "aligned", {"exp/ali_fmllr"}, "align_fmllr")

\* line 153 and lines 80-97
AliToPhones == RunStep("aligned", "phones", {"export"}, "ali-to-phones")

\* line 154 and lines 107-118
Export == RunStep("phones", "exported", {}, "export")

\* a recipe after __init__, for njobs up to MaxJobs, in a recipe directory
\* that may hold the directories of an earlier run
InitAlign ==
    /\ word = <<>>
    /\ ret = <<>>
    /\ cls = "WallStreetJournalPreparator"
    /\ overwrite = FALSE
    /\ inputExists = TRUE
    /\ tree = {}
    /\ cmuDict = SmallDict
    /\ outdir = AbsentDir
    /\ obj = NoObject
    /\ data = NoData
    /\ pc = "force_align"
    /\ err = ""
    /\ prep = <<>>
    /\ NotStarted
    /\ am_dir = None
    /\ lm_dir = None
    /\ njobs \in 1..MaxJobs
    /\ recipe_dir \in SUBSET {"exp/ali_fmllr", "export"}
    /\ commands = <<>>
    /\ fa = "created"
    /\ faErr = ""

NextAlign ==
    \/ SetAmDir
    \/ SetLmDir
    \/ CheckParameters
    \/ AlignFmllr
    \/ AliToPhones
    \/ Export

SpecAlign == InitAlign /\ [][NextAlign]_vars

----------------------------------------------------------------------------
(* Claims about correct_word *)

\* the token after uppercasing and backslash removal
Uppercased(w) == Replace(Upper(w), <<"\\">>, <<>>)

\* '[<x]', '[x>]', '[x/]' or '[/x]' for some inner text x
BoundaryShape(u) ==
    /\ Len(u) >= 3
    /\ u[1] = "[" /\ u[Len(u)] = "]"
    /\ (u[2] \in {"<", "/"} \/ u[Len(u) - 1] \in {">", "/"})

\* the documented drop rules
DropRule(u) == u = <<"~">> \/ u = <<".">> \/ BoundaryShape(u)

\* the documented removal of one enclosing pair of angle brackets
StripAngle(u) ==
    IF Len(u) >= 2 /\ u[1] = "<" /\ u[Len(u)] = ">"
    THEN SubSeq(u, 2, Len(u) - 1)
    ELSE u

\* the documented normal form the drop and rewrite rules are applied to
Documented(w) ==
    StripAngle(Replace(Replace(Uppercased(w), <<"%">> \o PERCENT, PERCENT),
                       <<".">> \o POINT, POINT))

\* the documented rewrite rules, for a token that is not dropped
Rewritten(u) ==
    IF Len(u) >= 1 /\ u[1] = "[" /\ u[Len(u)] = "]" THEN NOISE
    ELSE IF u = <<"-", "-">> \o DASH THEN <<"-">> \o DASH
    ELSE u

\* C1: every token that after uppercasing and backslash removal is '~', '.'
\* or has one of the four noise-event-boundary shapes '[<x]', '[x>]', '[x/]',
\* '[/x]' is mapped to the empty string by correct_word.
C1_DropsBoundaryTokens ==
    (ret # <<>> /\ DropRule(Uppercased(word))) => ret[1] = Return(<<>>)

\* C2: for every non-empty token that the drop rules do not drop,
\* correct_word returns the documented rewriting: uppercase, remove
\* backslashes, replace '%PERCENT' and '.POINT', strip one pair of angle
\* brackets, then '<noise>' for '[...]', '-DASH' for '--DASH', and the token
\* unchanged otherwise.
C2_RulesInOrder ==
    (ret # <<>> /\ word # <<>> /\ ~DropRule(Documented(word)))
        => ret[1] = Return(Rewritten(Documented(word)))

\* C3: correct_word is total: for every token it returns a string and raises
\* nothing, also when the token is empty after backslash removal or after
\* the angle brackets are stripped.
C3_Total ==
    ret # <<>> => ret[1].raised = ""


----------------------------------------------------------------------------
(* Claims about the manifests *)

\* the first space-separated field of a manifest line
FirstField(line) == Split(line, <<" ">>)[1]

\* the utterance IDs a manifest holds
Ids(file) == { FirstField(file.lines[i]) : i \in 1..Len(file.lines) }

\* the lines of the selected transcript files
SelectedLines == AllLines(obj.input_transcriptions)

\* a line of the form '<text> (<utterance-id>)'
WellFormed(line) == ReMatch(Strip(line)).matched

LineText(line) == ReMatch(Strip(line)).g1

LineId(line) == ReMatch(Strip(line)).g2

\* the results of correct_word on the tokens of a text, the empty ones
\* removed, joined by single spaces
Normalized(text) ==
    LET tokens == Split(text, <<" ">>)
        results == [i \in 1..Len(tokens) |-> correct_word(tokens[i]).value]
    IN  Join(SelectSeq(results, LAMBDA w : w # <<>>), <<" ">>)

\* what the transcription manifest is said to hold
ExpectedText ==
    LET ls == SelectedLines
    IN  Concat([i \in 1..Len(ls) |->
            IF InList(LineId(ls[i]), obj.bad_utts) THEN <<>>
            ELSE <<LineId(ls[i]) \o <<" ">> \o Normalized(LineText(ls[i]))>>])

TranscriptionRan == pc \in {"make_transcription", "make_transcription raised"}

\* C4: for every transcript line '<text> (<utterance-id>)' whose ID is not in
\* the exclusion set, make_transcription writes '<utterance-id> ' and the
\* non-empty correct_word results of the tokens of <text> joined by single
\* spaces; lines whose ID is excluded are not written.
C4_TranscriptionLines ==
    (TranscriptionRan
        /\ \A i \in 1..Len(SelectedLines) : WellFormed(SelectedLines[i]))
    => data.text = File(ExpectedText)

\* the utterance IDs of the selected transcript lines that hold the marker
MarkedIds ==
    { LineId(SelectedLines[i]) :
        i \in { k \in 1..Len(SelectedLines) : Contains(SelectedLines[k], BAD) } }

Constructed == pc \notin {"start", "failed", "correct_word"}

\* C5: every utterance ID whose transcript line holds '[bad_recording]' is
\* in the exclusion set once the preparator is constructed, and has no file
\* in wavs/ and no line in segments.txt, utt2spk.txt or text.txt, whichever
\* of make_wavs, make_segment, make_speaker and make_transcription have run.
C5_BadUtterancesExcluded ==
    Constructed =>
        \A u \in MarkedIds :
            /\ InList(u, obj.bad_utts)
            /\ (u \o WAV) \notin data.wavs
            /\ u \notin Ids(data.segments)
            /\ u \notin Ids(data.utt2spk)
            /\ u \notin Ids(data.text)

\* C5 witness: the four steps have run on a corpus that holds a recording
\* and an unmarked transcript line of an utterance that another line marks,
\* beside an utterance that is kept.
C5_Witness ==
    /\ pc = "make_transcription"
    /\ \E u \in MarkedIds :
        /\ \E i \in 1..Len(obj.input_recordings) :
               RecordingId(obj.input_recordings[i]) = u
        /\ \E i \in 1..Len(SelectedLines) :
               /\ ~Contains(SelectedLines[i], BAD)
               /\ LineId(SelectedLines[i]) = u
    /\ data.wavs # {}

\* C6: after the recording step and the three emitters have run, text.txt,
\* segments.txt and utt2spk.txt hold the same set of utterance IDs.
C6_SameIds ==
    pc = "make_transcription" =>
        /\ Ids(data.text) = Ids(data.segments)
        /\ Ids(data.segments) = Ids(data.utt2spk)

----------------------------------------------------------------------------
(* Claims about the lexicon *)

\* a dictionary line without its surrounding spaces
Entry(line) == Strip(line)

\* the word of a dictionary line: what precedes the first double space
EntryWord(line) == Split(Entry(line), <<" ", " ">>)[1]

\* the phones of a dictionary line: what follows the first double space
EntryPhones(line) == PyDrop(Entry(line), Len(EntryWord(line)) + 2)

\* a comment line
CommentLine(line) == PyPrefix(Entry(line), 3) = <<";", ";", ";">>

\* a word that ends with a parenthesized number
NumberedWord(w) ==
    \E n \in 1..Len(w) :
        /\ Len(w) >= n + 2
        /\ w[Len(w)] = ")"
        /\ w[Len(w) - n - 1] = "("
        /\ \A k \in (Len(w) - n)..(Len(w) - 1) : w[k] \in Digits

NoDigits(s) == SelectSeq(s, LAMBDA c : c \notin Digits)

ExpectedLexicon(ls) ==
    LET kept == SelectSeq(ls, LAMBDA l : ~CommentLine(l)
                                          /\ ~NumberedWord(EntryWord(l)))
    IN  [i \in 1..Len(kept) |->
            EntryWord(kept[i]) \o <<" ">> \o NoDigits(EntryPhones(kept[i]))]
        \o << <<"<","n","o","i","s","e",">"," ","N","S","N">> >>

OK1Line == <<"O","K","(","1",")"," "," ","O","W"," ","K"," ","E","Y","1">>

OKLine == <<"O","K"," "," ","O","W"," ","K"," ","E","Y","1">>

\* C7: make_lexicon writes one line '<word> <phones>' for each dictionary
\* line that is no ';;;' comment and whose word does not end with '(n)', the
\* digits removed from the phones, in dictionary order, and then the one line
\* '<noise> NSN'; 'OK(1)  OW K EY1' gives no line and 'OK  OW K EY1' gives
\* 'OK OW K EY'.
C7_Lexicon ==
    pc = "make_lexicon" =>
        /\ data.lexicon = File(ExpectedLexicon(cmuDict.lines))
        /\ cmuDict.lines = <<OK1Line, OKLine>> =>
               data.lexicon.lines =
                   << <<"O","K"," ","O","W"," ","K"," ","E","Y">>,
                      <<"<","n","o","i","s","e",">"," ","N","S","N">> >>

\* C7 witness: the lexicon of the dictionary 'OK(1)  OW K EY1', 'OK  OW K EY1'
C7_Witness ==
    /\ pc = "make_lexicon"
    /\ cmuDict.lines = <<OK1Line, OKLine>>
    /\ Len(data.lexicon.lines) = 2

----------------------------------------------------------------------------
(* Claims about prepare() and the constructor *)

\* C8: prepare() on a constructed WallStreetJournalPreparator (or variant)
\* runs its six steps in order, each once, and returns normally with
\* segments.txt, utt2spk.txt, text.txt, lexicon.txt and phones.txt written.
C8_PrepareRunsSixSteps ==
    cls \in WSJClasses =>
        /\ pc # "prepare raised"
        /\ pc = "preparing" => IsPrefix(prep, PrepareSteps)
        /\ pc = "prepared" =>
              /\ prep = PrepareSteps
              /\ data.segments.exists /\ data.utt2spk.exists
              /\ data.text.exists /\ data.lexicon.exists
              /\ data.phones.exists

\* the directory names and the 4th character the variants document
DocumentedDirs(c) ==
    CASE c = "JournalistReadPreparator" -> {"si_tr_j"}
      [] c = "JournalistSpontaneousPreparator" -> {"si_tr_jd"}
      [] c = "MainReadPreparator" -> {"si_tr_s", "si_tr_l", "sd_tr_s", "sd_tr_l"}

DocumentedChar(c) ==
    CASE c = "JournalistReadPreparator" -> "c"
      [] c = "JournalistSpontaneousPreparator" -> "s"
      [] c = "MainReadPreparator" -> "c"

DocumentedSelection(c, f, ext) ==
    /\ \E i \in 1..Len(f.dirs) : f.dirs[i] \in DocumentedDirs(c)
    /\ Len(f.name) >= 4 /\ f.name[4] = DocumentedChar(c)
    /\ PySuffix(f.name, 4) = ext

Variants == WSJClasses \ {"WallStreetJournalPreparator"}

\* C9: a variant preparator selects only .wv1 and .dot files that lie below
\* a directory of the variant's documented names and whose 4th character is
\* the variant's documented character.
C9_VariantSelection ==
    (pc = "constructed" /\ cls \in Variants) =>
        /\ \A i \in 1..Len(obj.input_recordings) :
               DocumentedSelection(cls, obj.input_recordings[i], WV1)
        /\ \A i \in 1..Len(obj.input_transcriptions) :
               DocumentedSelection(cls, obj.input_transcriptions[i], DOT)

\* C10: when the output directory exists and overwrite is not requested, the
\* constructor fails with an error and leaves the file system as it was.
C10_ExistingOutputRejected ==
    [][(pc = "start" /\ outdir.exists /\ ~overwrite) =>
          /\ pc' = "failed"
          /\ err' # ""
          /\ outdir' = outdir
          /\ data' = data
          /\ tree' = tree
          /\ cmuDict' = cmuDict]_vars

\* C10 witness: a constructor call on an existing input directory was
\* rejected because of the output directory, which holds what it held.
C10_Witness ==
    /\ pc = "failed"
    /\ err = "IOError"
    /\ inputExists /\ ~overwrite
    /\ outdir = [exists |-> TRUE, entries |-> {"old.txt"}]


----------------------------------------------------------------------------
(* Claims about overwrite *)

\* data/wavs and logs below output_dir, and nothing else
EmptyHierarchy == [exists |-> TRUE, entries |-> {"data", "data/wavs", "logs"}]

\* C11: with overwrite=True the constructor deletes what the output directory
\* holds and succeeds in creating the empty data/wavs and logs hierarchy,
\* whether the output directory exists or is absent.
C11_OverwriteClears ==
    [][(pc = "start" /\ overwrite /\ inputExists) =>
          /\ pc' = "constructed"
          /\ outdir' = EmptyHierarchy]_vars


----------------------------------------------------------------------------
(* Claims about main() *)

FatalPrinted ==
    \E i \in 1..Len(stdout) : stdout[i] = "fatal error: " \o err

\* C12: main() ends with a non-zero exit status, after printing a 'fatal
\* error' message, whenever the construction, prepare() or validate() raised;
\* it ends with exit status zero only when the preparation (and the
\* validation, unless disabled) completed without error.
C12_ExitStatus ==
    status # <<>> =>
        /\ err # "" => (status[1] # 0 /\ FatalPrinted)
        /\ status[1] = 0 => (err = "" /\ pc \in {"prepared", "validated"})


----------------------------------------------------------------------------
(* Claims about the manifests of an emitter that aborts *)

\* the transcript lines that are due an entry of text.txt: all but those of
\* the form '<text> (<utterance-id>)' with an excluded ID
DueLines ==
    SelectSeq(SelectedLines,
              LAMBDA l : ~(WellFormed(l) /\ InList(LineId(l), obj.bad_utts)))

\* text.txt has an entry for every line that is due one
TextComplete == Len(data.text.lines) = Len(DueLines)

\* the dictionary lines that are due an entry of lexicon.txt: all but the
\* comments and the alternative pronunciations
DueEntries ==
    SelectSeq(cmuDict.lines,
              LAMBDA l : ~CommentLine(l) /\ ~NumberedWord(EntryWord(l)))

\* lexicon.txt has an entry for every line that is due one, and the entry of
\* the noise word
LexiconComplete == Len(data.lexicon.lines) = Len(DueEntries) + 1

TranscriptionAborted ==
    pc = "make_transcription raised" /\ err = "AttributeError"

LexiconAborted == pc = "make_lexicon raised" /\ err = "ValueError"

\* C13: when make_transcription aborts on a transcript line that is not of
\* the form '<text> (<utterance-id>)', text.txt is absent or complete, and
\* when make_lexicon aborts on a dictionary line that does not split into a
\* word and its phones, lexicon.txt is absent or complete: never a file with
\* only the entries that precede the offending line.
C13_NoPartialManifest ==
    /\ TranscriptionAborted => (~data.text.exists \/ TextComplete)
    /\ LexiconAborted => (~data.lexicon.exists \/ LexiconComplete)


----------------------------------------------------------------------------
(* Claims about the scan for '[bad_recording]' *)

\* the lines of the transcript files the constructor selects
Offered == AllLines(list_files(cls, DOT).value)

Marked(line) == Contains(line, BAD)

\* the positions of the closing parentheses of a line
Closings(line) == { j \in 1..Len(line) : line[j] = ")" }

\* the positions where ' (' starts before position j
Openings(line, j) ==
    { i \in 1..Len(line) :
        i + 1 < j /\ line[i] = " " /\ line[i + 1] = "(" }

\* a line '<text> (<utterance-id>)': its last ')' has a ' (' before it
HasGroup(line) ==
    Closings(line) # {} /\ Openings(line, Max(Closings(line))) # {}

\* the text inside the last parenthesized group of such a line
LastGroup(line) ==
    LET j == Max(Closings(line))
        i == Max(Openings(line, j))
    IN  SubSeq(line, i + 2, j - 1)

\* C14: once the preparator is constructed, every selected transcript line
\* with the marker '[bad_recording]' has the form '<text> (<utterance-id>)'
\* and its ID is in the exclusion set, and every ID of the exclusion set is
\* that of a line with the marker; when a selected line with the marker has
\* not that form, the construction fails with an error.
C14_MarkedLinesCounted ==
    LET selected == SelectedLines
        marked == SelectSeq(selected, Marked)
        offered == SelectSeq(Offered, Marked)
    IN  /\ Constructed =>
              /\ \A i \in 1..Len(marked) :
                    /\ HasGroup(marked[i])
                    /\ InList(LastGroup(marked[i]), obj.bad_utts)
              /\ \A k \in 1..Len(obj.bad_utts) :
                    \E i \in 1..Len(marked) :
                        /\ HasGroup(marked[i])
                        /\ LastGroup(marked[i]) = obj.bad_utts[k]
        /\ (pc \notin {"start", "correct_word"}
              /\ \E i \in 1..Len(offered) : ~HasGroup(offered[i]))
           => (pc = "failed" /\ err # "")

\* C14 witness: a preparator constructed from a line with the marker and a
\* line without it, of which only the first gave its ID to the exclusion set
C14_Witness ==
    /\ pc = "constructed"
    /\ obj.bad_utts = <<U2>>
    /\ \E i \in 1..Len(SelectedLines) :
          /\ ~Marked(SelectedLines[i])
          /\ HasGroup(SelectedLines[i])
          /\ LastGroup(SelectedLines[i]) = U1


----------------------------------------------------------------------------
(* Claims about list_files *)

\* a file below a directory the directory predicate accepts, with a name the
\* file predicate accepts
Matching(f, ext) ==
    /\ \E i \in 1..Len(f.dirs) : dir_filter(cls, f.dirs[i])
    /\ file_filter(cls, ext, f.name)

\* how many times x is in the list l
Count(x, l) == Len(SelectSeq(l, LAMBDA y : y = x))

\* every utterance has one line in the transcripts of the corpus
UtterancesOnce ==
    \A f \in tree, g \in tree :
        \A i \in 1..Len(f.lines), j \in 1..Len(g.lines) :
            LineId(f.lines[i]) = LineId(g.lines[j]) => (f = g /\ i = j)

\* C15: list_files returns each matching file once, whatever the tree and
\* the directory predicate, and so text.txt holds at most one line per
\* utterance ID when each utterance occurs once in the transcripts.
C15_ListedOnce ==
    /\ Constructed =>
          \A f \in tree :
              /\ Matching(f, WV1) => Count(f, obj.input_recordings) = 1
              /\ Matching(f, DOT) => Count(f, obj.input_transcriptions) = 1
    /\ (pc = "make_transcription" /\ UtterancesOnce) =>
          \A i \in 1..Len(data.text.lines), j \in 1..Len(data.text.lines) :
              FirstField(data.text.lines[i]) = FirstField(data.text.lines[j])
                  => i = j


----------------------------------------------------------------------------
(* Claims about a construction that fails *)

\* C16: a construction of a WallStreetJournalPreparator that fails, on an
\* output directory that was absent, leaves the output directory absent.
C16_FailureLeavesNoOutput ==
    [][(pc = "start" /\ cls \in WSJClasses /\ ~outdir.exists /\ pc' = "failed")
          => ~outdir'.exists]_vars


----------------------------------------------------------------------------
(* Claims about ForceAlign.run() *)

RunSteps == <<"align_fmllr", "ali-to-phones", "export">>

\* run() was called
Started == fa # "created"

Unspecified == am_dir.none \/ lm_dir.none

Invalid ==
    \/ ~am_dir.none /\ "final.mdl" \notin am_dir.files
    \/ ~lm_dir.none /\ "phones.txt" \notin lm_dir.files

NonSpecified ==
    { "RuntimeError: non specified acoustic model",
      "RuntimeError: non specified language model" }

NonValid ==
    { "RuntimeError: non valid acoustic model",
      "RuntimeError: non valid language model" }

\* C17: run() starts the external steps in the order align_fmllr,
\* ali-to-phones, export, and only after both model checks passed: with
\* am_dir or lm_dir unspecified it raises RuntimeError 'non specified ...
\* model', with final.mdl or phones.txt missing RuntimeError 'non valid ...
\* model', in both cases before any external step; a step that fails is the
\* last one started.
C17_RunChecksThenSteps ==
    /\ [](/\ IsPrefix(commands, RunSteps)
          /\ (Started /\ (Unspecified \/ Invalid)) =>
                /\ fa = "raised"
                /\ commands = <<>>
                /\ faErr \in NonSpecified \cup NonValid
                /\ ~Invalid => faErr \in NonSpecified
                /\ ~Unspecified => faErr \in NonValid)
    /\ [][fa = "raised" => commands' = commands]_vars

====
